---------------------------- MODULE Spec2Model ----------------------------
(***************************************************************************)
(* Model of the review moderation engine of reviews_poc:                   *)
(*   review_analyzer.py  (ReviewAnalyzer, _get_client)                     *)
(*   prompts.py          (pattern catalog, rejection reason table)         *)
(*   config.py           (tag vocabularies)                                *)
(*                                                                         *)
(* Python values are encoded as follows.  A str is a TLA+ string.  None,   *)
(* True, False and the numbers 0 and 1 are the atoms below (strings that   *)
(* no review or response of the model uses as text).  A dict is the        *)
(* sequence of its <<key, value>> items in insertion order, a list is a    *)
(* sequence.                                                               *)
(***************************************************************************)
EXTENDS Integers, Sequences, FiniteSets, TLC

VARIABLES
    client,       \* review_analyzer.client: the module-global Groq client
    api_key,      \* config.GROQ_API_KEY is set (non-empty)
    pc,           \* position of the running analyze_review call
    review,       \* arguments of the running call
    signals,      \* local of analyze_review
    topic_tags,   \* local of analyze_review
    flags,        \* local of analyze_review
    requests,     \* requests the running call has sent to the external model
    exc,          \* the exception in flight ("" if none)
    llm_raised,   \* the exception the try body of _analyze_with_llm raised ("" if none)
    path,         \* which return statement built the result ("main", "fallback")
    result        \* the record analyze_review returned

\* callers of analyze_review on several threads
VARIABLES
    tpc,          \* position of each thread
    frame,        \* the locals of each thread's analyze_review call
    tmp,          \* the Groq object a thread has constructed and not yet stored (line 31)
    got,          \* what _get_client returned to each thread
    made,         \* how many Groq objects have been constructed
    handed_out    \* per thread, the dict _get_default_signals last handed to it, as it is now

\* api.py: analyze_bulk_reviews
VARIABLES
    bpc,                 \* position of the running analyze_bulk_reviews request
    reviews_to_analyze,  \* the valid reviews of the input file
    idx,                 \* iterations of the loop of line 178 that have ended
    analyzed_reviews,    \* local of analyze_bulk_reviews
    published_count,     \* local of analyze_bulk_reviews
    rejected_count,      \* local of analyze_bulk_reviews
    raw_collection,      \* review ids stored in reviews_raw
    enriched_collection, \* review ids stored in reviews_enriched
    called,              \* the positions for which analyze_review has been called
    failed,              \* the positions whose iteration ended in the except clause
    output               \* the BulkAnalysisOutput returned

\* the state of the one-at-a-time caller
analysis_vars ==
    <<pc, review, signals, topic_tags, flags, requests, exc, llm_raised, path, result>>

thread_vars == <<tpc, frame, tmp, got, made, handed_out>>

bulk_vars ==
    <<bpc, reviews_to_analyze, idx, analyzed_reviews, published_count, rejected_count,
      raw_collection, enriched_collection, called, failed, output>>

vars == <<client, api_key, analysis_vars, thread_vars, bulk_vars>>

-----------------------------------------------------------------------------
(* Python atoms *)

None == "<None>"

True == "<True>"

False == "<False>"

Zero == "<0>"

One == "<1>"

\* a variant of Truthy that holds of the boolean true only
IsTrue(v) == v = True

\* bool(v) for the values a JSON document can hold at a signal key
Truthy(v) == v \notin {None, False, Zero, ""}

-----------------------------------------------------------------------------
(* dict operations *)

DictHas(d, k) == \E i \in 1..Len(d) : d[i][1] = k

DictIndex(d, k) == CHOOSE i \in 1..Len(d) : d[i][1] = k

\* d.get(k, default)
DictGet(d, k, default) == IF DictHas(d, k) THEN d[DictIndex(d, k)][2] ELSE default

\* d[k] = v : an existing key keeps its place, a new key goes last
DictSet(d, k, v) ==
    IF DictHas(d, k) THEN [d EXCEPT ![DictIndex(d, k)] = <<k, v>>]
    ELSE Append(d, <<k, v>>)

DictKeys(d) == [i \in 1..Len(d) |-> d[i][1]]

SeqToSet(s) == {s[i] : i \in 1..Len(s)}

-----------------------------------------------------------------------------
(* str operations *)

CharAt(s, i) == SubSeq(s, i, i)

LowerLetters == "abcdefghijklmnopqrstuvwxyz"

UpperLetters == "ABCDEFGHIJKLMNOPQRSTUVWXYZ"

DigitChars == {"0", "1", "2", "3", "4", "5", "6", "7", "8", "9"}

LowerSet == {CharAt(LowerLetters, i) : i \in 1..Len(LowerLetters)}

UpperSet == {CharAt(UpperLetters, i) : i \in 1..Len(UpperLetters)}

\* \w of a str pattern: letters, digits and the underscore
WordChars == LowerSet \cup UpperSet \cup DigitChars \cup {"_"}

\* \s, and the characters str.strip() and str.split() treat as blank
Whitespace == {" ", "\t", "\n", "\r"}

LowerChar(c) ==
    IF c \in UpperSet
    THEN CharAt(LowerLetters, CHOOSE i \in 1..Len(UpperLetters) : CharAt(UpperLetters, i) = c)
    ELSE c

UpperChar(c) ==
    IF c \in LowerSet
    THEN CharAt(UpperLetters, CHOOSE i \in 1..Len(LowerLetters) : CharAt(LowerLetters, i) = c)
    ELSE c

\* character i of s in lower case ("" past the end)
LowerAt(s, i) == IF i > Len(s) THEN "" ELSE LowerChar(CharAt(s, i))

\* the characters of s from position i on, in lower case, four at a step
RECURSIVE StrLowerFrom(_, _)
StrLowerFrom(s, i) ==
    IF i > Len(s) THEN ""
    ELSE LowerAt(s, i) \o LowerAt(s, i + 1) \o LowerAt(s, i + 2) \o LowerAt(s, i + 3)
             \o StrLowerFrom(s, i + 4)

\* str.lower()
StrLower(s) == StrLowerFrom(s, 1)

\* len(s.strip().split()): the number of maximal runs of non-blank characters
WordCount(s) ==
    Cardinality({i \in 1..Len(s) :
        /\ CharAt(s, i) \notin Whitespace
        /\ (i = 1 \/ CharAt(s, i - 1) \in Whitespace)})

\* needle in haystack
StrContains(hay, needle) ==
    \E i \in 1..(Len(hay) - Len(needle) + 1) : SubSeq(hay, i, i + Len(needle) - 1) = needle

RECURSIVE StrRepeat(_, _)
StrRepeat(s, n) == IF n <= 0 THEN "" ELSE s \o StrRepeat(s, n - 1)

-----------------------------------------------------------------------------
(***************************************************************************)
(* Regular expressions, as much of Python's re as the pattern catalog      *)
(* uses.  A pattern is a tree of nodes [op, set, neg, subs]; Ends computes *)
(* the text positions at which a match of the node can end when it starts  *)
(* at one of the positions P (position p is "before character p").         *)
(***************************************************************************)

\* one character of the set (neg: one character outside it)
Chr(cs) == [op |-> "chr", set |-> cs, neg |-> FALSE, subs |-> <<>>]

NotChr(cs) == [op |-> "chr", set |-> cs, neg |-> TRUE, subs |-> <<>>]

Cat(ns) == [op |-> "cat", set |-> {}, neg |-> FALSE, subs |-> ns]

Alt(ns) == [op |-> "alt", set |-> {}, neg |-> FALSE, subs |-> ns]

Star(n) == [op |-> "star", set |-> {}, neg |-> FALSE, subs |-> <<n>>]

Plus(n) == [op |-> "plus", set |-> {}, neg |-> FALSE, subs |-> <<n>>]

Opt(n) == [op |-> "opt", set |-> {}, neg |-> FALSE, subs |-> <<n>>]

\* \b
WordB == [op |-> "wordb", set |-> {}, neg |-> FALSE, subs |-> <<>>]

\* a literal string
Lit(s) == Cat([i \in 1..Len(s) |-> Chr({CharAt(s, i)})])

\* n{k}
Rep(n, k) == Cat([i \in 1..k |-> n])

\* \d  \w  \s  \S
ReDigit == Chr(DigitChars)

ReWord == Chr(WordChars)

ReSpace == Chr(Whitespace)

ReNonSpace == NotChr(Whitespace)

\* whether character c matches a chr node; ic is re.IGNORECASE
CharMatches(c, n, ic) ==
    LET in == \/ c \in n.set
              \/ (ic /\ (LowerChar(c) \in n.set \/ UpperChar(c) \in n.set))
    IN  in # n.neg

IsWordAt(text, p) == p >= 1 /\ p <= Len(text) /\ CharAt(text, p) \in WordChars

RECURSIVE Ends(_, _, _, _)
RECURSIVE EndsCat(_, _, _, _, _)
RECURSIVE EndsStar(_, _, _, _, _)

Ends(n, text, ic, P) ==
    CASE n.op = "chr" ->
            {p + 1 : p \in {q \in P : q <= Len(text) /\ CharMatches(CharAt(text, q), n, ic)}}
      [] n.op = "cat" -> EndsCat(n.subs, 1, text, ic, P)
      [] n.op = "alt" -> UNION {Ends(n.subs[i], text, ic, P) : i \in 1..Len(n.subs)}
      [] n.op = "opt" -> P \cup Ends(n.subs[1], text, ic, P)
      [] n.op = "star" -> EndsStar(n.subs[1], text, ic, P, P)
      [] n.op = "plus" ->
            LET F == Ends(n.subs[1], text, ic, P) IN EndsStar(n.subs[1], text, ic, F, F)
      [] n.op = "wordb" -> {p \in P : IsWordAt(text, p - 1) # IsWordAt(text, p)}

EndsCat(ns, i, text, ic, P) ==
    IF i > Len(ns) \/ P = {} THEN P
    ELSE EndsCat(ns, i + 1, text, ic, Ends(ns[i], text, ic, P))

\* Done: positions reached so far; Frontier: those not yet extended
EndsStar(n, text, ic, Done, Frontier) ==
    LET New == Ends(n, text, ic, Frontier) \ Done
    IN  IF New = {} THEN Done ELSE EndsStar(n, text, ic, Done \cup New, New)

\* re.search(pattern, text, flags) is not None
re_search(pattern, text, ic) == Ends(pattern, text, ic, 1..(Len(text) + 1)) # {}

-----------------------------------------------------------------------------
(* prompts.py: the pattern catalog *)

\* (\d+|\w+)
AmountOrWord == Alt(<<Plus(ReDigit), Plus(ReWord)>>)

PRICE_PATTERNS == <<
    Cat(<<Lit("₹"), Star(ReSpace), Plus(ReDigit)>>),
    Cat(<<Lit("rs"), Opt(Lit(".")), Star(ReSpace), Plus(ReDigit)>>),
    Cat(<<Lit("inr"), Star(ReSpace), Plus(ReDigit)>>),
    Cat(<<Lit("paid"), Star(ReSpace), AmountOrWord>>),
    Cat(<<Lit("cost"), Star(ReSpace), AmountOrWord>>),
    Cat(<<Lit("price"), Star(ReSpace), AmountOrWord>>),
    Cat(<<Plus(ReDigit), Star(ReSpace),
          Alt(<<Lit("per night"), Lit("per day"), Lit("per room")>>)>>) >>

\* [\w\.-]
MailChar == Chr(WordChars \cup {".", "-"})

CONTACT_PATTERNS == <<
    Cat(<<WordB, Rep(ReDigit, 10), WordB>>),
    Cat(<<WordB, Rep(ReDigit, 3), Lit("-"), Rep(ReDigit, 3), Lit("-"), Rep(ReDigit, 4), WordB>>),
    Cat(<<Plus(MailChar), Lit("@"), Plus(MailChar), Lit("."), Plus(ReWord)>>) >>

OWNER_NAME_PATTERNS == <<
    Cat(<<Alt(<<Lit("owner"), Lit("manager"), Lit("proprietor"), Lit("boss")>>),
          Plus(ReSpace), Opt(Cat(<<Lit("is"), Plus(ReSpace)>>)), Plus(ReWord)>>),
    Cat(<<Alt(<<Lit("spoke"), Lit("talked"), Lit("met")>>),
          Plus(ReSpace), Opt(Cat(<<Lit("with"), Plus(ReSpace)>>)), Plus(ReWord),
          Opt(Cat(<<Plus(ReSpace), Lit("the"), Plus(ReSpace),
                    Alt(<<Lit("owner"), Lit("manager")>>)>>))>>) >>

PROFANITY_PATTERNS == <<
    Cat(<<WordB,
          Alt(<<Lit("damn"), Lit("shit"), Lit("bloody"), Lit("crap"), Lit("hell")>>),
          WordB>>) >>

\* [$-_@.&+] : the range from "$" to "_" of ASCII, and "@", ".", "&", "+"
UrlRangeChars ==
    {"$", "%", "&", "'", "(", ")", "*", "+", ",", "-", ".", "/", ":", ";", "<", "=", ">",
     "?", "@", "[", "\\", "]", "^", "_"} \cup DigitChars \cup UpperSet

HexChars == DigitChars \cup {"a", "b", "c", "d", "e", "f", "A", "B", "C", "D", "E", "F"}

SUSPICIOUS_LINK_PATTERNS == <<
    Cat(<<Lit("http"), Opt(Chr({"s"})), Lit("://"),
          Plus(Alt(<<Chr(LowerSet \cup UpperSet), Chr(DigitChars), Chr(UrlRangeChars),
                     Chr({"!", "*", "\\", "(", ")", ","}),
                     Cat(<<Lit("%"), Chr(HexChars), Chr(HexChars)>>)>>))>>),
    Cat(<<Lit("www"), Lit("."), Plus(ReNonSpace)>>) >>

\* any(re.search(pattern, text, flags) for pattern in patterns)
AnyMatch(patterns, text, ic) ==
    \E i \in 1..Len(patterns) : re_search(patterns[i], text, ic)

-----------------------------------------------------------------------------
(* config.py and prompts.py: vocabularies and tables *)

SENTIMENT_TAGS == <<"SENTIMENT_POSITIVE", "SENTIMENT_NEUTRAL", "SENTIMENT_NEGATIVE">>

TOPIC_TAGS == <<
    "CLEANLINESS", "ROOM_QUALITY", "BATHROOM", "FOOD_BREAKFAST", "RESTAURANT_FOOD",
    "SERVICE_STAFF", "CHECKIN_CHECKOUT", "LOCATION", "AMENITIES", "WIFI", "NOISE",
    "PARKING", "SAFETY_SECURITY", "MAINTENANCE" >>

SPECIAL_TAGS == <<
    "PRICE_MENTIONED", "OWNER_MENTIONED", "CONTACT_INFO_MENTIONED", "ABUSIVE_CONTENT",
    "SPAM_SUSPECT" >>

ALL_TAGS == SENTIMENT_TAGS \o TOPIC_TAGS \o SPECIAL_TAGS

LLM_MODEL == "mixtral-8x7b-32768"

PROMPT_VERSION == "v1.0"

REJECTION_REASONS_RULES == <<
    <<"PRICE_MENTIONED", "Price, tariff, or monetary amount mentioned">>,
    <<"OWNER_MENTIONED", "Hotel owner or manager name mentioned">>,
    <<"CONTACT_INFO", "Phone number or email address present">>,
    <<"ABUSIVE_LANGUAGE", "Contains profanity or abusive language">>,
    <<"SPAM_LINKS", "Contains spam, advertisements, or links">>,
    <<"HATE_SEXUAL_VIOLENT", "Contains hate speech, sexual, or violent content">> >>

\* the word count below which a review is too short
MIN_WORDS == 15

\* the number of characters of the review an automatic summary keeps
SUMMARY_CHARS == 150

-----------------------------------------------------------------------------
(* review_analyzer.py: the pure steps of ReviewAnalyzer *)

_get_default_signals == <<
    <<"price_mentioned", False>>,
    <<"owner_name_mentioned", False>>,
    <<"phone_email_present", False>>,
    <<"abusive_language", False>>,
    <<"spam_or_links", False>>,
    <<"hate_sexual_violent", False>>,
    <<"too_short", False>>,
    <<"summary", "">>,
    <<"sentiment", "SENTIMENT_NEUTRAL">> >>

\* a variant of regex_hits whose price test reads the text as written, case-sensitively
regex_hits_cased(review_text) ==
    LET text_lower == StrLower(review_text)
    IN  [ price_mentioned      |-> AnyMatch(PRICE_PATTERNS, review_text, FALSE),
          phone_email_present  |-> AnyMatch(CONTACT_PATTERNS, review_text, FALSE),
          owner_name_mentioned |-> AnyMatch(OWNER_NAME_PATTERNS, text_lower, TRUE),
          abusive_language     |-> AnyMatch(PROFANITY_PATTERNS, text_lower, FALSE),
          spam_or_links        |-> AnyMatch(SUSPICIOUS_LINK_PATTERNS, review_text, FALSE),
          too_short            |-> WordCount(review_text) < MIN_WORDS ]

\* a variant of regex_hits whose word count test includes MIN_WORDS
regex_hits_inclusive(review_text) ==
    LET text_lower == StrLower(review_text)
    IN  [ price_mentioned      |-> AnyMatch(PRICE_PATTERNS, text_lower, TRUE),
          phone_email_present  |-> AnyMatch(CONTACT_PATTERNS, review_text, FALSE),
          owner_name_mentioned |-> AnyMatch(OWNER_NAME_PATTERNS, text_lower, TRUE),
          abusive_language     |-> AnyMatch(PROFANITY_PATTERNS, text_lower, FALSE),
          spam_or_links        |-> AnyMatch(SUSPICIOUS_LINK_PATTERNS, review_text, FALSE),
          too_short            |-> WordCount(review_text) <= MIN_WORDS ]

\* the six tests of _enhance_signals_with_regex on one text
regex_hits(review_text) ==
    LET text_lower == StrLower(review_text)
    IN  [ price_mentioned      |-> AnyMatch(PRICE_PATTERNS, text_lower, TRUE),
          phone_email_present  |-> AnyMatch(CONTACT_PATTERNS, review_text, FALSE),
          owner_name_mentioned |-> AnyMatch(OWNER_NAME_PATTERNS, text_lower, TRUE),
          abusive_language     |-> AnyMatch(PROFANITY_PATTERNS, text_lower, FALSE),
          spam_or_links        |-> AnyMatch(SUSPICIOUS_LINK_PATTERNS, review_text, FALSE),
          too_short            |-> WordCount(review_text) < MIN_WORDS ]

\* a variant of SetIf that writes only a key the signal set does not have yet
SetIfAbsent(hit, sigs, key) == IF hit /\ ~DictHas(sigs, key) THEN DictSet(sigs, key, True) ELSE sigs

\* a variant of SetIf that writes the outcome of the test, true or false
SetAlways(hit, sigs, key) == DictSet(sigs, key, IF hit THEN True ELSE False)

\* if hit: signals[key] = True
SetIf(hit, sigs, key) == IF hit THEN DictSet(sigs, key, True) ELSE sigs

\* a variant of ApplyHits that also raises hate_sexual_violent on a profanity hit
ApplyHitsAndHate(h, sigs) ==
    LET s1 == SetIf(h.price_mentioned, sigs, "price_mentioned")
        s2 == SetIf(h.phone_email_present, s1, "phone_email_present")
        s3 == SetIf(h.owner_name_mentioned, s2, "owner_name_mentioned")
        s4 == SetIf(h.abusive_language, s3, "abusive_language")
        s5 == SetIf(h.abusive_language, s4, "hate_sexual_violent")
        s6 == SetIf(h.spam_or_links, s5, "spam_or_links")
    IN  SetIf(h.too_short, s6, "too_short")

\* the assignments of _enhance_signals_with_regex, in the order of the code
ApplyHits(h, sigs) ==
    LET s1 == SetIf(h.price_mentioned, sigs, "price_mentioned")
        s2 == SetIf(h.phone_email_present, s1, "phone_email_present")
        s3 == SetIf(h.owner_name_mentioned, s2, "owner_name_mentioned")
        s4 == SetIf(h.abusive_language, s3, "abusive_language")
        s5 == SetIf(h.spam_or_links, s4, "spam_or_links")
    IN  SetIf(h.too_short, s5, "too_short")

SeqContains(seq, v) == \E i \in 1..Len(seq) : seq[i] = v

\* a variant of _determine_sentiment whose thresholds are strict
determine_sentiment_strict(llm_sentiment, rating) ==
    LET coerced == IF ~SeqContains(SENTIMENT_TAGS, llm_sentiment)
                   THEN "SENTIMENT_NEUTRAL" ELSE llm_sentiment
    IN  IF rating > 4 /\ coerced = "SENTIMENT_NEGATIVE" THEN "SENTIMENT_POSITIVE"
        ELSE IF rating < 2 /\ coerced = "SENTIMENT_POSITIVE" THEN "SENTIMENT_NEGATIVE"
        ELSE coerced

\* a variant of _determine_sentiment without the coercion of lines 154-155
determine_sentiment_uncoerced(llm_sentiment, rating) ==
    IF rating >= 4 /\ llm_sentiment = "SENTIMENT_NEGATIVE" THEN "SENTIMENT_POSITIVE"
    ELSE IF rating <= 2 /\ llm_sentiment = "SENTIMENT_POSITIVE" THEN "SENTIMENT_NEGATIVE"
    ELSE llm_sentiment

_determine_sentiment(llm_sentiment, rating) ==
    LET coerced == IF ~SeqContains(SENTIMENT_TAGS, llm_sentiment)
                   THEN "SENTIMENT_NEUTRAL" ELSE llm_sentiment
    IN  IF rating >= 4 /\ coerced = "SENTIMENT_NEGATIVE" THEN "SENTIMENT_POSITIVE"
        ELSE IF rating <= 2 /\ coerced = "SENTIMENT_POSITIVE" THEN "SENTIMENT_NEGATIVE"
        ELSE coerced

\* a variant of hard_reject_checks with a row for too_short
checks_with_too_short == <<
    <<"price_mentioned", "PRICE_MENTIONED">>,
    <<"owner_name_mentioned", "OWNER_MENTIONED">>,
    <<"phone_email_present", "CONTACT_INFO">>,
    <<"abusive_language", "ABUSIVE_LANGUAGE">>,
    <<"spam_or_links", "SPAM_LINKS">>,
    <<"hate_sexual_violent", "HATE_SEXUAL_VIOLENT">>,
    <<"too_short", "TOO_SHORT">> >>

hard_reject_checks == <<
    <<"price_mentioned", "PRICE_MENTIONED">>,
    <<"owner_name_mentioned", "OWNER_MENTIONED">>,
    <<"phone_email_present", "CONTACT_INFO">>,
    <<"abusive_language", "ABUSIVE_LANGUAGE">>,
    <<"spam_or_links", "SPAM_LINKS">>,
    <<"hate_sexual_violent", "HATE_SEXUAL_VIOLENT">> >>

\* a variant of RejectionLoop that walks the signal set, pair i on, in its own key order
RECURSIVE ReasonsInKeyOrder(_, _, _)
ReasonsInKeyOrder(checks, i, sigs) ==
    IF i > Len(sigs) THEN <<>>
    ELSE (IF DictHas(checks, sigs[i][1]) /\ Truthy(sigs[i][2])
          THEN <<DictGet(REJECTION_REASONS_RULES, DictGet(checks, sigs[i][1], ""), "")>>
          ELSE <<>>) \o ReasonsInKeyOrder(checks, i + 1, sigs)

\* the loop of _apply_publishing_rules over checks[i..]
RECURSIVE RejectionLoop(_, _, _)
RejectionLoop(checks, i, sigs) ==
    IF i > Len(checks) THEN <<>>
    ELSE LET signal_key == checks[i][1]
             reason_code == checks[i][2]
             rest == RejectionLoop(checks, i + 1, sigs)
         IN  IF Truthy(DictGet(sigs, signal_key, False))
             THEN <<DictGet(REJECTION_REASONS_RULES, reason_code, reason_code)>> \o rest
             ELSE rest

\* a variant of PublishDecision that rejects only on several reasons
PublishDecisionSeveral(rejection_reasons) ==
    IF Len(rejection_reasons) > 1 THEN "REJECT" ELSE "PUBLISH"

PublishDecision(rejection_reasons) == IF rejection_reasons # <<>> THEN "REJECT" ELSE "PUBLISH"

\* (publish_decision, rejection_reasons)
_apply_publishing_rules(sigs) ==
    LET rejection_reasons == RejectionLoop(hard_reject_checks, 1, sigs)
    IN  <<PublishDecision(rejection_reasons), rejection_reasons>>

_get_sentiment_tag(sentiment) ==
    IF SeqContains(SENTIMENT_TAGS, sentiment) THEN sentiment ELSE "SENTIMENT_NEUTRAL"

special_tag_map == <<
    <<"price_mentioned", "PRICE_MENTIONED">>,
    <<"owner_name_mentioned", "OWNER_MENTIONED">>,
    <<"phone_email_present", "CONTACT_INFO_MENTIONED">>,
    <<"abusive_language", "ABUSIVE_CONTENT">>,
    <<"spam_or_links", "SPAM_SUSPECT">> >>

\* whether tags holds the topic tag t
HoldsTag(tags, t) == \E k \in 1..Len(tags) : tags[k] = t

\* a variant of TopicLoop that lists the allow-listed tags in the order of config.TOPIC_TAGS
TopicInCatalogOrder(tags, i) ==
    LET Reported(t) == HoldsTag(tags, t) IN SelectSeq(TOPIC_TAGS, Reported)

\* a variant of TopicLoop without the test of line 198
TopicUnfiltered(tags, i) == tags

\* for tag in topic_tags: if tag in config.TOPIC_TAGS: tags.append(tag)
RECURSIVE TopicLoop(_, _)
TopicLoop(tags, i) ==
    IF i > Len(tags) THEN <<>>
    ELSE (IF SeqContains(TOPIC_TAGS, tags[i]) THEN <<tags[i]>> ELSE <<>>) \o TopicLoop(tags, i + 1)

RECURSIVE SpecialLoop(_, _, _)
SpecialLoop(map, i, sigs) ==
    IF i > Len(map) THEN <<>>
    ELSE (IF Truthy(DictGet(sigs, map[i][1], False)) THEN <<map[i][2]>> ELSE <<>>)
         \o SpecialLoop(map, i + 1, sigs)

\* a variant of Dedupe that keeps every tag
KeepAll(tags, i, unique_tags) == tags

\* the seen/unique_tags loop: the first occurrence of each tag, in order
RECURSIVE Dedupe(_, _, _)
Dedupe(tags, i, unique_tags) ==
    IF i > Len(tags) THEN unique_tags
    ELSE Dedupe(tags, i + 1,
                IF SeqContains(unique_tags, tags[i]) THEN unique_tags
                ELSE Append(unique_tags, tags[i]))

\* tag_items: the elements that iterating over topic_tags yields
_generate_tags(sigs, tag_items, sentiment_tag) ==
    Dedupe(<<sentiment_tag>> \o TopicLoop(tag_items, 1) \o SpecialLoop(special_tag_map, 1, sigs),
           1, <<>>)

_auto_summarize(review_text) ==
    IF Len(review_text) <= SUMMARY_CHARS THEN review_text
    ELSE SubSeq(review_text, 1, SUMMARY_CHARS) \o "..."

-----------------------------------------------------------------------------
(***************************************************************************)
(* JSON documents.  A member of the response object that may hold a list,  *)
(* an object or something else is a value [ty, items]; summary, sentiment  *)
(* and the values of the signals object are strings or atoms.  Absent      *)
(* marks a member the object does not have.                                *)
(***************************************************************************)

Absent == "<absent>"

JAbsent == [ty |-> "absent", items |-> <<>>]

JNone == [ty |-> "none", items |-> <<>>]

JNum == [ty |-> "num", items |-> <<>>]

JList(xs) == [ty |-> "list", items |-> xs]

JDict(kv) == [ty |-> "dict", items |-> kv]

\* whether "for x in v" works, and what it yields
Iterable(v) == v.ty \in {"list", "dict"}

IterItems(v) == IF v.ty = "dict" THEN DictKeys(v.items) ELSE v.items

\* json.dumps
DumpAtom(v) ==
    CASE v = None -> "null"
      [] v = True -> "true"
      [] v = False -> "false"
      [] v = Zero -> "0"
      [] v = One -> "1"
      [] OTHER -> "\"" \o v \o "\""

RECURSIVE DumpList(_, _)
DumpList(xs, i) ==
    IF i > Len(xs) THEN ""
    ELSE (IF i > 1 THEN ", " ELSE "") \o DumpAtom(xs[i]) \o DumpList(xs, i + 1)

RECURSIVE DumpPairs(_, _)
DumpPairs(kv, i) ==
    IF i > Len(kv) THEN ""
    ELSE (IF i > 1 THEN ", " ELSE "") \o DumpAtom(kv[i][1]) \o ": " \o DumpAtom(kv[i][2])
         \o DumpPairs(kv, i + 1)

DumpValue(v) ==
    CASE v.ty = "none" -> "null"
      [] v.ty = "num" -> "1"
      [] v.ty = "list" -> "[" \o DumpList(v.items, 1) \o "]"
      [] v.ty = "dict" -> "{" \o DumpPairs(v.items, 1) \o "}"

RECURSIVE JoinMembers(_, _)
JoinMembers(ms, i) ==
    IF i > Len(ms) THEN ""
    ELSE (IF i > 1 THEN ", " ELSE "") \o ms[i] \o JoinMembers(ms, i + 1)

\* the text of the response object a, its members in the order of the prompt
Dumps(a) ==
    LET m1 == IF a.summary = Absent THEN <<>> ELSE <<"\"summary\": " \o DumpAtom(a.summary)>>
        m2 == IF a.sentiment = Absent THEN <<>>
              ELSE <<"\"sentiment\": " \o DumpAtom(a.sentiment)>>
        m3 == IF a.signals.ty = "absent" THEN <<>>
              ELSE <<"\"signals\": " \o DumpValue(a.signals)>>
        m4 == IF a.topic_tags.ty = "absent" THEN <<>>
              ELSE <<"\"topic_tags\": " \o DumpValue(a.topic_tags)>>
        m5 == IF a.flags.ty = "absent" THEN <<>> ELSE <<"\"flags\": " \o DumpValue(a.flags)>>
    IN  "{" \o JoinMembers(m1 \o m2 \o m3 \o m4 \o m5, 1) \o "}"

-----------------------------------------------------------------------------
(* the inputs the model draws from *)

\* ratings range over 0..MaxRating: the valid 1..5 and a value on each side
MaxRating == 6

\* the longest topic_tags list the extractor reports
MaxTopicTags == 2

\* the largest number of keys of the signals object the extractor reports
MaxSignalKeys == 2

Ratings == 0..MaxRating

\* a review says one of these, alone or followed by MIN_WORDS more words
Phrases == {
    "",
    "Nice stay",
    "We paid 5000",
    "Call 9876543210",
    "Great stay, spoke with owner Rajesh about the room.",
    "Damn slow service",
    "See www.deals.in",
    "Paid Rs. 5000, mail a@b.co",
    "Terrible service, dirty rooms, will never return.",
    "Damn, the manager Raj took INR 900, see http://x.in or 123-456-7890",
    "Ring 919876543210",
    "We met friends at the pool",
    "Clean room and kind staff, we liked the pool, the food was fine too.",
    "Room was ₹5000",
    "They took RS. 5000 extra",
    "Whatsapp no9876543210 anytime" }

Texts == {p \o StrRepeat(" ok", n) : p \in Phrases, n \in {0, MIN_WORDS}}

\* three signal names of the prompt and a name the prompt does not know
ReportedKeys == {"price_mentioned", "hate_sexual_violent", "too_short", "vip_guest"}

ReportedValues == {True, False}

\* values of a signal that are no booleans: a string, numbers, null
OtherValues == {"false", One, Zero, None}

\* the signals for which the extractor may report such a value
OtherKeys == {"price_mentioned", "hate_sexual_violent"}

ReportedTags == {"WIFI", "CLEANLINESS", "BOGUS", "SENTIMENT_NEUTRAL", "PRICE_MENTIONED"}

ReportedSentiments ==
    {Absent, None, "HAPPY", "SENTIMENT_POSITIVE", "SENTIMENT_NEUTRAL", "SENTIMENT_NEGATIVE"}

\* signals objects: up to MaxSignalKeys distinct keys, in every order
SignalDicts ==
    {d \in UNION {[1..n -> ReportedKeys \X ReportedValues] : n \in 0..MaxSignalKeys} :
        \A i, j \in 1..Len(d) : i # j => d[i][1] # d[j][1]}

TopicLists == UNION {[1..n -> ReportedTags] : n \in 0..MaxTopicTags}

\* the grave accent of a message content, written "~" (a TLA+ string cannot hold it)
Backtick == "~"

\* the code fence markers of lines 99-102
FENCE == Backtick \o Backtick \o Backtick

FENCE_JSON == FENCE \o "json"

\* the object {}
EmptyDoc == [ signals    |-> JAbsent,
              topic_tags |-> JAbsent,
              flags      |-> JAbsent,
              summary    |-> Absent,
              sentiment  |-> Absent ]

\* a summary that quotes an empty object between code fence markers
FencedSummary == "See " \o FENCE \o "{}" \o FENCE

BaseDoc == [ signals    |-> JAbsent,
             topic_tags |-> JList(<<"WIFI">>),
             flags      |-> JList(<<>>),
             summary    |-> "Good stay.",
             sentiment  |-> "SENTIMENT_POSITIVE" ]

\* the response objects: BaseDoc with one member varied
Documents ==
    {[BaseDoc EXCEPT !.signals = v] : v \in {JNone} \cup {JDict(d) : d \in SignalDicts}}
    \cup {[BaseDoc EXCEPT !.topic_tags = v] :
            v \in {JAbsent, JNone, JNum} \cup {JList(t) : t \in TopicLists}}
    \cup {[BaseDoc EXCEPT !.sentiment = v] : v \in ReportedSentiments}
    \cup {[BaseDoc EXCEPT !.summary = v] : v \in {Absent, "", FencedSummary}}
    \cup {EmptyDoc}
    \cup {[BaseDoc EXCEPT !.signals = JDict(<<<<k, v>>>>)] : k \in OtherKeys, v \in OtherValues}
    \cup {[BaseDoc EXCEPT !.flags = v] : v \in {JAbsent, JList(<<"generic", "too_short">>)}}

DumpOf == [a \in Documents |-> Dumps(a)]

\* JSON texts that are not an object
NonObjectJson == {"[]", "1", "null"}

\* message contents that are no JSON at all
NotJson == {"", "Sorry, I cannot analyze this review.", "{\"summary\": \"Good"}

\* the message content that holds body between json code fences
Fenced(body) == FENCE_JSON \o "\n" \o body \o "\n" \o FENCE

\* what the external model's message content can be
Contents ==
    {DumpOf[a] : a \in Documents}
    \cup {Fenced(DumpOf[a]) : a \in Documents}
    \cup NonObjectJson \cup NotJson \cup {None}

\* the errors chat.completions.create raises
CallErrors == {"APIConnectionError", "AuthenticationError", "APITimeoutError"}

\* what one request to the external model leads to
Responses ==
    {[status |-> e, content |-> None] : e \in CallErrors}
    \cup {[status |-> "ok", content |-> c] : c \in Contents}

-----------------------------------------------------------------------------
(* review_analyzer.py: _analyze_with_llm *)

\* s.find(sep) from position from on: 0 if there is none
StrFind(s, sep, from) ==
    LET hits == {i \in from..(Len(s) - Len(sep) + 1) : SubSeq(s, i, i + Len(sep) - 1) = sep}
    IN  IF hits = {} THEN 0 ELSE CHOOSE i \in hits : \A j \in hits : i <= j

\* s.strip()
StrStrip(s) ==
    LET keep == {i \in 1..Len(s) : CharAt(s, i) \notin Whitespace}
    IN  IF keep = {} THEN ""
        ELSE SubSeq(s, CHOOSE i \in keep : \A j \in keep : i <= j,
                       CHOOSE i \in keep : \A j \in keep : i >= j)

\* s.split(sep)
RECURSIVE StrSplit(_, _)
StrSplit(s, sep) ==
    LET i == StrFind(s, sep, 1)
    IN  IF i = 0 THEN <<s>>
        ELSE <<SubSeq(s, 1, i - 1)>> \o StrSplit(SubSeq(s, i + Len(sep), Len(s)), sep)

\* lines 99-102: the text between the code fence markers
StripFences(response_text) ==
    IF StrContains(response_text, FENCE_JSON)
    THEN StrStrip(StrSplit(StrSplit(response_text, FENCE_JSON)[2], FENCE)[1])
    ELSE IF StrContains(response_text, FENCE)
    THEN StrStrip(StrSplit(StrSplit(response_text, FENCE)[2], FENCE)[1])
    ELSE response_text

\* json.loads: exc is the exception raised ("" if none), ty the type of the value
json_loads(text) ==
    IF \E a \in Documents : DumpOf[a] = text
    THEN [exc |-> "", ty |-> "dict", doc |-> CHOOSE a \in Documents : DumpOf[a] = text]
    ELSE IF text \in NonObjectJson
    THEN [exc |-> "", ty |-> "other", doc |-> BaseDoc]
    ELSE [exc |-> "JSONDecodeError", ty |-> "", doc |-> BaseDoc]

\* what _analyze_with_llm hands back: exc is the exception that left it ("" if it returned)
\* raised is the exception its try body raised, whether or not it was caught
LLMReturn(sigs, tags, fl) ==
    [exc |-> "", raised |-> "", signals |-> sigs, topic_tags |-> tags, flags |-> fl]

LLMRaise(e) ==
    [exc |-> e, raised |-> e, signals |-> <<>>, topic_tags |-> JList(<<>>),
     flags |-> JList(<<>>)]

\* lines 106-115: the members read from the parsed object analysis, and the return
ReadAnalysis(analysis) ==
    LET sigs == IF analysis.signals.ty = "absent" THEN JDict(<<>>) ELSE analysis.signals
        tags == IF analysis.topic_tags.ty = "absent" THEN JList(<<>>) ELSE analysis.topic_tags
        fl == IF analysis.flags.ty = "absent" THEN JList(<<>>) ELSE analysis.flags
        summary == IF analysis.summary = Absent THEN "" ELSE analysis.summary
        sentiment == IF analysis.sentiment = Absent THEN "SENTIMENT_NEUTRAL"
                     ELSE analysis.sentiment
    IN  IF sigs.ty # "dict" THEN LLMRaise("TypeError")
        ELSE LLMReturn(DictSet(DictSet(sigs.items, "summary", summary),
                               "sentiment", sentiment), tags, fl)

\* lines 104-115: from the outcome of json.loads on
AfterLoads(parsed) ==
    IF parsed.exc # "" THEN LLMRaise(parsed.exc)
    ELSE IF parsed.ty # "dict" THEN LLMRaise("AttributeError")
    ELSE ReadAnalysis(parsed.doc)

\* lines 84-115, the try body; have_client: _get_client() returns a client
analyze_with_llm_try(have_client, resp) ==
    IF ~have_client THEN LLMRaise("ValueError")
    ELSE IF resp.status # "ok" THEN LLMRaise(resp.status)
    ELSE IF resp.content = None THEN LLMRaise("AttributeError")
    ELSE AfterLoads(json_loads(StripFences(StrStrip(resp.content))))

\* the classes an except clause of the class handler catches
Catches(handler, e) ==
    \/ handler = "Exception"
    \/ handler = e
    \/ (handler = "ValueError" /\ e = "JSONDecodeError")

\* a variant of LLM_HANDLERS without the clause of lines 120-122
JSON_HANDLER_ONLY == <<"JSONDecodeError">>

\* the except clauses of _analyze_with_llm, lines 117-122
LLM_HANDLERS == <<"JSONDecodeError", "Exception">>

\* lines 117-122: r is how the try body ended
HandleLLM(r) ==
    IF r.exc = "" THEN r
    ELSE IF \E i \in 1..Len(LLM_HANDLERS) : Catches(LLM_HANDLERS[i], r.exc)
    THEN [LLMReturn(_get_default_signals, JList(<<>>), JList(<<>>)) EXCEPT !.raised = r.exc]
    ELSE r

_analyze_with_llm(have_client, resp) == HandleLLM(analyze_with_llm_try(have_client, resp))

-----------------------------------------------------------------------------
(* review_analyzer.py: analyze_review *)

\* the pattern tests of every text of the model, computed once
RegexHits == [t \in Texts |-> regex_hits(t)]

_enhance_signals_with_regex(review_text, sigs) == ApplyHits(RegexHits[review_text], sigs)

Record(rev, summary, sentiment, decision, tags, sigs, fl) ==
    [ review_id         |-> rev.review_id,
      hotel_id          |-> rev.hotel_id,
      rating            |-> rev.rating,
      review_text       |-> rev.review_text,
      summary           |-> summary,
      sentiment         |-> sentiment,
      publish_decision  |-> decision[1],
      rejection_reasons |-> decision[2],
      tags              |-> tags,
      detected_signals  |-> sigs,
      flags             |-> fl,
      model_name        |-> LLM_MODEL,
      prompt_version    |-> PROMPT_VERSION ]

\* lines 51-75: the record built from the enhanced signals sigs
MainRecord(rev, sigs, sentiment, tags, fl) ==
    Record(rev, DictGet(sigs, "summary", _auto_summarize(rev.review_text)), sentiment,
           _apply_publishing_rules(sigs),
           _generate_tags(sigs, IterItems(tags), _get_sentiment_tag(sentiment)), sigs, fl)

\* lines 51-75, with line 51: sentiment = self._determine_sentiment(...)
AfterEnhance(rev, sigs, tags, fl) ==
    MainRecord(rev, sigs, _determine_sentiment(DictGet(sigs, "sentiment", None), rev.rating),
               tags, fl)

\* lines 48-75: the record the try body of analyze_review returns
analyze_review_main(rev, sigs0, tags, fl) ==
    AfterEnhance(rev, _enhance_signals_with_regex(rev.review_text, sigs0), tags, fl)

\* the exception lines 48-75 raise ("" if none): iterating over topic_tags
analyze_review_raises(tags) == IF Iterable(tags) THEN "" ELSE "TypeError"

\* lines 247-264: the fallback record built from the enhanced default signals sigs
SafeRecord(rev, sigs, sentiment) ==
    Record(rev,
           IF Len(rev.review_text) > SUMMARY_CHARS
           THEN SubSeq(rev.review_text, 1, SUMMARY_CHARS) \o "..."
           ELSE rev.review_text,
           sentiment, _apply_publishing_rules(sigs), <<_get_sentiment_tag(sentiment)>>, sigs,
           JList(<<"llm_analysis_failed">>))

\* a variant of _get_safe_default_analysis whose tags come from _generate_tags
safe_default_analysis_tagged(rev) ==
    [SafeRecord(rev, _enhance_signals_with_regex(rev.review_text, _get_default_signals),
                "SENTIMENT_NEUTRAL")
        EXCEPT !.tags = _generate_tags(
                   _enhance_signals_with_regex(rev.review_text, _get_default_signals),
                   <<>>, "SENTIMENT_NEUTRAL")]

\* a variant of _get_safe_default_analysis that derives the sentiment from the rating
safe_default_analysis_by_rating(rev) ==
    SafeRecord(rev, _enhance_signals_with_regex(rev.review_text, _get_default_signals),
               IF rev.rating >= 4 THEN "SENTIMENT_POSITIVE"
               ELSE IF rev.rating <= 2 THEN "SENTIMENT_NEGATIVE"
               ELSE "SENTIMENT_NEUTRAL")

_get_safe_default_analysis(rev) ==
    SafeRecord(rev, _enhance_signals_with_regex(rev.review_text, _get_default_signals),
               "SENTIMENT_NEUTRAL")

\* a variant of REVIEW_HANDLER that catches ValueError only
NARROW_HANDLER == "ValueError"

\* the except clause of analyze_review, line 77
REVIEW_HANDLER == "Exception"

-----------------------------------------------------------------------------
(* the state machine: calls of analyze_review, one at a time *)

NoReview == [review_id |-> "", hotel_id |-> "", rating |-> 0, review_text |-> ""]

NoResult == Record(NoReview, "", "", <<"", <<>>>>, <<>>, <<>>, JList(<<>>))

\* the threads that call analyze_review
Threads == {"T1", "T2"}

\* no request has been sent
NotSent == [status |-> "not sent", content |-> None]

\* the locals of a call that has not started
NoFrame ==
    [review |-> NoReview, response |-> NotSent, signals |-> <<>>, topic_tags |-> JList(<<>>),
     flags |-> JList(<<>>), exc |-> "", own |-> FALSE, path |-> "", result |-> NoResult]

ThreadsIdle ==
    /\ tpc = [t \in Threads |-> "idle"]
    /\ frame = [t \in Threads |-> NoFrame]
    /\ tmp = [t \in Threads |-> None]
    /\ got = [t \in Threads |-> None]
    /\ made = 0
    /\ handed_out = [t \in Threads |-> <<>>]

\* no output yet
NoOutput == [total_reviews |-> 0, published_count |-> 0, rejected_count |-> 0,
             db_rows_inserted |-> 0]

\* the locals of analyze_bulk_reviews when no request runs
BulkLocalsIdle ==
    /\ reviews_to_analyze = <<>>
    /\ idx = 0
    /\ analyzed_reviews = <<>>
    /\ published_count = 0
    /\ rejected_count = 0
    /\ called = <<>>
    /\ failed = {}
    /\ output = NoOutput

BulkIdle ==
    /\ bpc = "idle"
    /\ BulkLocalsIdle
    /\ raw_collection = {}
    /\ enriched_collection = {}

Init ==
    /\ ThreadsIdle
    /\ BulkIdle
    /\ client = None
    /\ api_key \in BOOLEAN
    /\ pc = "idle"
    /\ review = NoReview
    /\ signals = <<>>
    /\ topic_tags = JList(<<>>)
    /\ flags = JList(<<>>)
    /\ requests = 0
    /\ exc = ""
    /\ llm_raised = ""
    /\ path = ""
    /\ result = NoResult

\* a caller invokes analyze_review(review_id, hotel_id, rating, review_text)
Call ==
    /\ pc = "idle"
    /\ pc' = "llm"
    /\ \E rating \in Ratings, text \in Texts :
           review' = [review_id |-> "R1", hotel_id |-> "HOTEL_001", rating |-> rating,
                      review_text |-> text]
    /\ signals' = <<>>
    /\ topic_tags' = JList(<<>>)
    /\ flags' = JList(<<>>)
    /\ requests' = 0
    /\ exc' = ""
    /\ llm_raised' = ""
    /\ path' = ""
    /\ result' = NoResult
    /\ UNCHANGED <<client, api_key, thread_vars, bulk_vars>>

\* _get_client, lines 25-32: whether it returns a client
HaveClient == client # None \/ api_key

\* a variant of RequestsIssued that sends the request again after a call error
RequestsWithRetry(have_client, resp) ==
    IF ~have_client THEN 0 ELSE IF resp.status # "ok" THEN 2 ELSE 1

\* lines 89-95: the requests one run of _analyze_with_llm sends; the only call of
\* chat.completions.create stands outside any loop, behind _get_client()
RequestsIssued(have_client, resp) == IF have_client THEN 1 ELSE 0

\* _analyze_with_llm on every response of the model, computed once
LLMResults == [h \in BOOLEAN, r \in Responses |-> _analyze_with_llm(h, r)]

\* line 46: signals, topic_tags, flags = self._analyze_with_llm(rating, review_text)
AnalyzeWithLLM ==
    /\ pc = "llm"
    /\ \E resp \in Responses : \E r \in {LLMResults[HaveClient, resp]} :
           /\ signals' = r.signals
           /\ topic_tags' = r.topic_tags
           /\ flags' = r.flags
           /\ exc' = r.exc
           /\ llm_raised' = r.raised
           /\ pc' = IF r.exc = "" THEN "pipeline" ELSE "except"
           /\ requests' = requests + RequestsIssued(HaveClient, resp)
    /\ client' = IF HaveClient THEN "Groq" ELSE client
    /\ UNCHANGED <<api_key, review, path, result, thread_vars, bulk_vars>>

\* lines 48-75: the rest of the try body, to its return or to the exception it raises
Pipeline ==
    /\ pc = "pipeline"
    /\ LET e == analyze_review_raises(topic_tags)
       IN  /\ exc' = e
           /\ pc' = IF e = "" THEN "return" ELSE "except"
           /\ path' = IF e = "" THEN "main" ELSE path
           /\ result' = IF e = "" THEN analyze_review_main(review, signals, topic_tags, flags)
                        ELSE result
    /\ UNCHANGED <<client, api_key, review, signals, topic_tags, flags, requests, llm_raised,
                   thread_vars, bulk_vars>>

\* lines 77-79: except Exception: return self._get_safe_default_analysis(...)
Except ==
    /\ pc = "except"
    /\ LET caught == Catches(REVIEW_HANDLER, exc)
       IN  /\ pc' = IF caught THEN "return" ELSE "raised"
           /\ exc' = IF caught THEN "" ELSE exc
           /\ path' = IF caught THEN "fallback" ELSE path
           /\ result' = IF caught THEN _get_safe_default_analysis(review) ELSE result
    /\ UNCHANGED <<client, api_key, review, signals, topic_tags, flags, requests, llm_raised,
                   thread_vars, bulk_vars>>

\* the caller takes the record; the next call may start
Return ==
    /\ pc = "return"
    /\ pc' = "idle"
    /\ review' = NoReview
    /\ signals' = <<>>
    /\ topic_tags' = JList(<<>>)
    /\ flags' = JList(<<>>)
    /\ requests' = 0
    /\ exc' = ""
    /\ llm_raised' = ""
    /\ path' = ""
    /\ result' = NoResult
    /\ UNCHANGED <<client, api_key, thread_vars, bulk_vars>>

Next ==
    \/ Call
    \/ AnalyzeWithLLM
    \/ Pipeline
    \/ Except
    \/ Return

Spec == Init /\ [][Next]_vars

-----------------------------------------------------------------------------
(***************************************************************************)
(* Several threads call analyze_review.  The module global client and the  *)
(* API key are shared; every thread has its own frame.  A thread switch    *)
(* can fall between any two of the steps below, so _get_client (lines      *)
(* 25-32, no lock) is split at each read and write of the global.          *)
(***************************************************************************)

\* the reviews the threads analyze
ThreadReviews ==
    {[review_id |-> "R1", hotel_id |-> "HOTEL_001", rating |-> 4, review_text |-> "Nice stay"],
     [review_id |-> "R2", hotel_id |-> "HOTEL_001", rating |-> 2,
      review_text |-> "We paid 5000"]}

\* a timeout, an answer whose topic_tags is null, a well-formed answer, and an answer
\* whose summary holds code fence markers, bare and between code fences
ThreadResponses ==
    {[status |-> "APITimeoutError", content |-> None],
     [status |-> "ok", content |-> DumpOf[[BaseDoc EXCEPT !.topic_tags = JNone]]],
     [status |-> "ok", content |-> DumpOf[BaseDoc]],
     [status |-> "ok", content |-> DumpOf[[BaseDoc EXCEPT !.summary = FencedSummary]]],
     [status |-> "ok", content |-> Fenced(DumpOf[[BaseDoc EXCEPT !.summary = FencedSummary]])]}

\* line 31: the k-th object Groq(api_key=...) constructs
GroqObject(k) == "Groq@" \o ToString(k)

\* a variant of FreshDefaults that hands out one dict kept between the calls
SharedDefaults(handed) ==
    IF \A t \in Threads : handed[t] = <<>> THEN _get_default_signals
    ELSE handed[CHOOSE t \in Threads : handed[t] # <<>>]

\* lines 228-240: _get_default_signals builds a new dict at each call, whatever became
\* of the dicts it handed out before
FreshDefaults(handed) == _get_default_signals

\* whether _analyze_with_llm, ended as r, returns self._get_default_signals() (lines 119, 122)
ReturnsDefaults(r) == r.raised # "" /\ r.exc = ""

\* line 46: the locals of frame f after _analyze_with_llm ended as r
AfterLLM(f, resp, r, defaults) ==
    [f EXCEPT !.response = resp,
              !.signals = IF ReturnsDefaults(r) THEN defaults ELSE r.signals,
              !.own = ReturnsDefaults(r),
              !.topic_tags = r.topic_tags,
              !.flags = r.flags,
              !.exc = r.exc]

\* thread t is back from _analyze_with_llm, which ended as r
LeaveLLM(t, resp, r) ==
    /\ frame' = [frame EXCEPT ![t] = AfterLLM(frame[t], resp, r, FreshDefaults(handed_out))]
    /\ handed_out' = IF ReturnsDefaults(r)
                     THEN [handed_out EXCEPT ![t] = FreshDefaults(handed_out)]
                     ELSE handed_out
    /\ tpc' = [tpc EXCEPT ![t] = IF r.exc = "" THEN "pipeline" ELSE "except"]

\* thread t calls analyze_review; line 89 of _analyze_with_llm enters _get_client
ThreadCall(t) ==
    /\ tpc[t] = "idle"
    /\ tpc' = [tpc EXCEPT ![t] = "test"]
    /\ \E rev \in ThreadReviews : frame' = [frame EXCEPT ![t] = [NoFrame EXCEPT !.review = rev]]
    /\ UNCHANGED <<client, api_key, analysis_vars, bulk_vars, tmp, got, made, handed_out>>

\* line 28: if client is None
TestClient(t) ==
    /\ tpc[t] = "test"
    /\ tpc' = [tpc EXCEPT ![t] = IF client = None THEN "key" ELSE "ret"]
    /\ UNCHANGED <<client, api_key, analysis_vars, bulk_vars, frame, tmp, got, made, handed_out>>

\* lines 29-30: without a key ValueError leaves _get_client and lines 120-122 catch it
TestKey(t) ==
    /\ tpc[t] = "key"
    /\ IF api_key
       THEN /\ tpc' = [tpc EXCEPT ![t] = "new"]
            /\ UNCHANGED <<frame, handed_out>>
       ELSE LeaveLLM(t, NotSent, _analyze_with_llm(FALSE, NotSent))
    /\ UNCHANGED <<client, api_key, analysis_vars, bulk_vars, tmp, got, made>>

\* line 31, right-hand side: Groq(api_key=config.GROQ_API_KEY)
Construct(t) ==
    /\ tpc[t] = "new"
    /\ tpc' = [tpc EXCEPT ![t] = "store"]
    /\ made' = made + 1
    /\ tmp' = [tmp EXCEPT ![t] = GroqObject(made + 1)]
    /\ UNCHANGED <<client, api_key, analysis_vars, bulk_vars, frame, got, handed_out>>

\* line 31, the assignment to the global
Store(t) ==
    /\ tpc[t] = "store"
    /\ tpc' = [tpc EXCEPT ![t] = "ret"]
    /\ client' = tmp[t]
    /\ tmp' = [tmp EXCEPT ![t] = None]
    /\ UNCHANGED <<api_key, analysis_vars, bulk_vars, frame, got, made, handed_out>>

\* line 32: return client
ReturnClient(t) ==
    /\ tpc[t] = "ret"
    /\ tpc' = [tpc EXCEPT ![t] = "request"]
    /\ got' = [got EXCEPT ![t] = client]
    /\ UNCHANGED <<client, api_key, analysis_vars, bulk_vars, frame, tmp, made, handed_out>>

\* lines 89-122: the request on the client _get_client returned, to the return of
\* _analyze_with_llm
Request(t) ==
    /\ tpc[t] = "request"
    /\ \E resp \in ThreadResponses : LeaveLLM(t, resp, LLMResults[TRUE, resp])
    /\ UNCHANGED <<client, api_key, analysis_vars, bulk_vars, tmp, got, made>>

\* the dict thread t was handed, after line 48 has written the pattern hits into it
Enhanced(t) ==
    IF frame[t].own
    THEN [handed_out EXCEPT
              ![t] = _enhance_signals_with_regex(frame[t].review.review_text, frame[t].signals)]
    ELSE handed_out

\* lines 48-75 on thread t
ThreadPipeline(t) ==
    /\ tpc[t] = "pipeline"
    /\ \E e \in {analyze_review_raises(frame[t].topic_tags)} :
           /\ tpc' = [tpc EXCEPT ![t] = IF e = "" THEN "return" ELSE "except"]
           /\ frame' = [frame EXCEPT ![t] =
                  IF e = ""
                  THEN [frame[t] EXCEPT
                            !.path = "main",
                            !.result = analyze_review_main(frame[t].review, frame[t].signals,
                                                           frame[t].topic_tags, frame[t].flags)]
                  ELSE [frame[t] EXCEPT !.exc = e]]
    /\ handed_out' = Enhanced(t)
    /\ UNCHANGED <<client, api_key, analysis_vars, bulk_vars, tmp, got, made>>

\* lines 242-264 with the dict defaults that line 244 obtained
safe_default_analysis_from(rev, defaults) ==
    SafeRecord(rev, _enhance_signals_with_regex(rev.review_text, defaults), "SENTIMENT_NEUTRAL")

\* lines 77-79 on thread t
ThreadExcept(t) ==
    /\ tpc[t] = "except"
    /\ \E caught \in {Catches(REVIEW_HANDLER, frame[t].exc)} :
       \E rec \in {safe_default_analysis_from(frame[t].review, FreshDefaults(handed_out))} :
           /\ tpc' = [tpc EXCEPT ![t] = IF caught THEN "return" ELSE "raised"]
           /\ frame' = [frame EXCEPT ![t] =
                  IF caught
                  THEN [frame[t] EXCEPT !.exc = "", !.path = "fallback", !.result = rec]
                  ELSE frame[t]]
           /\ handed_out' = IF caught
                            THEN [handed_out EXCEPT ![t] = rec.detected_signals]
                            ELSE handed_out
    /\ UNCHANGED <<client, api_key, analysis_vars, bulk_vars, tmp, got, made>>

\* the caller on thread t takes the record
ThreadReturn(t) ==
    /\ tpc[t] = "return"
    /\ tpc' = [tpc EXCEPT ![t] = "idle"]
    /\ frame' = [frame EXCEPT ![t] = NoFrame]
    /\ got' = [got EXCEPT ![t] = None]
    /\ UNCHANGED <<client, api_key, analysis_vars, bulk_vars, tmp, made, handed_out>>

ConcurrentNext ==
    \E t \in Threads :
        \/ ThreadCall(t)
        \/ TestClient(t)
        \/ TestKey(t)
        \/ Construct(t)
        \/ Store(t)
        \/ ReturnClient(t)
        \/ Request(t)
        \/ ThreadPipeline(t)
        \/ ThreadExcept(t)
        \/ ThreadReturn(t)

ConcurrentSpec == Init /\ [][ConcurrentNext]_vars

\* how _analyze_with_llm ends for the response resp (NotSent: there was no key, no request)
LLMOutcome(resp) ==
    IF resp = NotSent THEN _analyze_with_llm(FALSE, NotSent) ELSE LLMResults[TRUE, resp]

\* the record analyze_review returns for rev and resp in a process that analyzes nothing else
AloneRecord(rev, r) ==
    IF r.exc = "" /\ analyze_review_raises(r.topic_tags) = ""
    THEN analyze_review_main(rev, r.signals, r.topic_tags, r.flags)
    ELSE _get_safe_default_analysis(rev)

AloneResults ==
    [rev \in ThreadReviews, resp \in ThreadResponses \cup {NotSent} |->
        AloneRecord(rev, LLMOutcome(resp))]

-----------------------------------------------------------------------------
(***************************************************************************)
(* api.py: analyze_bulk_reviews, lines 124-241.  One request runs at a     *)
(* time (the handler is a coroutine that never awaits).  The two Mongo     *)
(* collections are the sets of review ids they hold; reviews_enriched has  *)
(* a unique index on review_id (database.py line 52).                      *)
(***************************************************************************)

MaxBatch == 3

\* the valid reviews an input file can hold, hotel_id being the request's
BulkReviews == ThreadReviews

\* lines 140-142: the lists of valid reviews, a review id may come twice
Batches == UNION {[1..n -> BulkReviews] : n \in 0..MaxBatch}

\* the exception Collection.insert_one raises ("" if none); db_up: the server answers
insert_one(collection, review_id, db_up) ==
    IF ~db_up THEN "AutoReconnect"
    ELSE IF review_id \in collection THEN "DuplicateKeyError"
    ELSE ""

\* a variant of BULK_HANDLER that catches the duplicate key error only
DUPLICATE_HANDLER == "DuplicateKeyError"

\* the except clause of the loop body, line 218
BULK_HANDLER == "Exception"

\* lines 132-176: import, validation, the raw store (its errors are swallowed at line
\* 168, so any of the batch's ids may be stored), the locals of the loop
StartBulk ==
    /\ bpc = "idle"
    /\ \E batch \in Batches :
           /\ reviews_to_analyze' = batch
           /\ bpc' = IF batch = <<>> THEN "http500" ELSE "loop"
           /\ \E stored \in SUBSET {batch[k].review_id : k \in 1..Len(batch)} :
                  raw_collection' = raw_collection \cup stored
    /\ idx' = 0
    /\ analyzed_reviews' = <<>>
    /\ published_count' = 0
    /\ rejected_count' = 0
    /\ called' = <<>>
    /\ failed' = {}
    /\ output' = NoOutput
    /\ UNCHANGED <<client, api_key, analysis_vars, thread_vars, enriched_collection>>

\* lines 209-213: the locals after the insert of analysis succeeded
Counted(analysis) ==
    /\ analyzed_reviews' = Append(analyzed_reviews, analysis)
    /\ published_count' =
           IF analysis.publish_decision = "PUBLISH" THEN published_count + 1
           ELSE published_count
    /\ rejected_count' =
           IF analysis.publish_decision = "PUBLISH" THEN rejected_count
           ELSE rejected_count + 1
    /\ enriched_collection' = enriched_collection \cup {analysis.review_id}
    /\ UNCHANGED failed

\* a variant of Skipped that counts the review of position k as rejected
SkippedAndCounted(k) ==
    /\ failed' = failed \cup {k}
    /\ rejected_count' = rejected_count + 1
    /\ UNCHANGED <<analyzed_reviews, published_count, enriched_collection>>

\* lines 218-220: the except clause caught the error of position k
Skipped(k) ==
    /\ failed' = failed \cup {k}
    /\ UNCHANGED <<analyzed_reviews, published_count, rejected_count, enriched_collection>>

\* lines 178-220: one iteration; analysis is what analyze_review returned, e what
\* insert_one raised
Iteration(k, analysis, e) ==
    /\ called' = Append(called, k)
    /\ IF e = "" THEN Counted(analysis) ELSE Skipped(k)
    /\ idx' = IF e = "" \/ Catches(BULK_HANDLER, e) THEN k ELSE idx
    /\ bpc' = IF e # "" /\ ~Catches(BULK_HANDLER, e) THEN "http500"
              ELSE IF k = Len(reviews_to_analyze) THEN "export"
              ELSE "loop"

AnalyzeOne ==
    /\ bpc = "loop"
    /\ \E resp \in (IF api_key THEN ThreadResponses ELSE {NotSent}), db_up \in BOOLEAN :
           \E analysis \in {AloneResults[reviews_to_analyze[idx + 1], resp]} :
               Iteration(idx + 1, analysis,
                         insert_one(enriched_collection, analysis.review_id, db_up))
    /\ client' = IF api_key THEN "Groq" ELSE client
    /\ UNCHANGED <<api_key, analysis_vars, thread_vars, reviews_to_analyze, raw_collection,
                   output>>

\* lines 222-241: the CSV export, then the output, or HTTP 500 if the export raises
ExportAndReturn ==
    /\ bpc = "export"
    /\ \E exported \in BOOLEAN :
           /\ bpc' = IF exported THEN "returned" ELSE "http500"
           /\ output' = IF exported
                        THEN [total_reviews    |-> Len(analyzed_reviews),
                              published_count  |-> published_count,
                              rejected_count   |-> rejected_count,
                              db_rows_inserted |-> Len(analyzed_reviews)]
                        ELSE output
    /\ UNCHANGED <<client, api_key, analysis_vars, thread_vars, reviews_to_analyze, idx,
                   analyzed_reviews, published_count, rejected_count, raw_collection,
                   enriched_collection, called, failed>>

\* the response is sent; the next request may come
BulkDone ==
    /\ bpc \in {"returned", "http500"}
    /\ bpc' = "idle"
    /\ reviews_to_analyze' = <<>>
    /\ idx' = 0
    /\ analyzed_reviews' = <<>>
    /\ published_count' = 0
    /\ rejected_count' = 0
    /\ called' = <<>>
    /\ failed' = {}
    /\ output' = NoOutput
    /\ UNCHANGED <<client, api_key, analysis_vars, thread_vars, raw_collection,
                   enriched_collection>>

BulkNext ==
    \/ StartBulk
    \/ AnalyzeOne
    \/ ExportAndReturn
    \/ BulkDone

BulkSpec == Init /\ [][BulkNext]_vars

-----------------------------------------------------------------------------
(***************************************************************************)
(* Properties of the analyzer.  A returned record is observed in the       *)
(* state pc = "return": result is the record, path tells which return     *)
(* statement built it, signals/topic_tags/flags are what _analyze_with_llm *)
(* handed back and llm_raised the exception its try body raised.           *)
(***************************************************************************)

Returned == pc = "return"

\* the value of a signal in the returned record (False if the key is missing)
Detected(key) == DictGet(result.detected_signals, key, False)

\* the signal set before the pattern merge
Incoming == IF path = "main" THEN signals ELSE _get_default_signals

\* the six rejecting signals with their catalog sentences, in the catalog's order
ReasonTable == <<
    <<"price_mentioned", "Price, tariff, or monetary amount mentioned">>,
    <<"owner_name_mentioned", "Hotel owner or manager name mentioned">>,
    <<"phone_email_present", "Phone number or email address present">>,
    <<"abusive_language", "Contains profanity or abusive language">>,
    <<"spam_or_links", "Contains spam, advertisements, or links">>,
    <<"hate_sexual_violent", "Contains hate speech, sexual, or violent content">> >>

\* the rows of ReasonTable whose signal is true in the returned record
TrueRows == {i \in 1..Len(ReasonTable) : Truthy(Detected(ReasonTable[i][1]))}

\* C1: every returned record, from the main path or from the fallback path, has
\* publish_decision "REJECT" if and only if its rejection_reasons is non-empty, and
\* "PUBLISH" otherwise.
C1_DecisionIffReasons ==
    Returned =>
        /\ path \in {"main", "fallback"}
        /\ result.publish_decision \in {"REJECT", "PUBLISH"}
        /\ (result.publish_decision = "REJECT") <=> (Len(result.rejection_reasons) > 0)

\* a record of the fallback path that rejects
C1_Witness ==
    /\ Returned
    /\ path = "fallback"
    /\ result.publish_decision = "REJECT"
    /\ Len(result.rejection_reasons) > 0

\* C2: the rejection reasons of a record are exactly the catalog sentences of the signals
\* that are true among the six rejecting signals, each once, in the fixed order of the
\* catalog whatever the key order of the signal set; so they are a function of the set.
C2_ReasonsInCatalogOrder ==
    Returned =>
        /\ Len(result.rejection_reasons) = Cardinality(TrueRows)
        /\ \A i \in TrueRows :
              result.rejection_reasons[Cardinality({k \in TrueRows : k <= i})]
                  = ReasonTable[i][2]

\* the extractor reported hate_sexual_violent before price_mentioned, both true, and the
\* record lists the price sentence first
C2_Witness ==
    /\ Returned
    /\ path = "main"
    /\ Len(signals) >= 2
    /\ signals[1] = <<"hate_sexual_violent", True>>
    /\ signals[2] = <<"price_mentioned", True>>
    /\ result.rejection_reasons = <<ReasonTable[1][2], ReasonTable[6][2]>>

\* the five signals a pattern family sets, with the row of their sentence
PatternSignals == <<
    <<"price_mentioned", 1>>, <<"owner_name_mentioned", 2>>, <<"phone_email_present", 3>>,
    <<"abusive_language", 4>>, <<"spam_or_links", 5>> >>

\* C3: if the review text triggers a price, owner, contact, profanity or link pattern,
\* the returned record has decision REJECT and lists the sentence of that pattern's
\* signal, whatever the extractor reported or raised and on either path.
C3_PatternHitRejects ==
    Returned =>
        \A i \in 1..Len(PatternSignals) :
            RegexHits[result.review_text][PatternSignals[i][1]] =>
                /\ result.publish_decision = "REJECT"
                /\ SeqContains(result.rejection_reasons, ReasonTable[PatternSignals[i][2]][2])
                /\ Detected(PatternSignals[i][1]) = True

\* the extractor reported price_mentioned false for a text that names a price
C3_Witness ==
    /\ Returned
    /\ path = "main"
    /\ DictHas(signals, "price_mentioned")
    /\ DictGet(signals, "price_mentioned", None) = False
    /\ RegexHits[result.review_text].price_mentioned
    /\ result.publish_decision = "REJECT"

\* the keys of a complete record
RecordKeys ==
    {"review_id", "hotel_id", "rating", "review_text", "summary", "sentiment",
     "publish_decision", "rejection_reasons", "tags", "detected_signals", "flags",
     "model_name", "prompt_version"}

\* no exception has left analyze_review, and a returned record is complete
NoRaiseAndComplete ==
    /\ pc # "raised"
    /\ Returned =>
          /\ exc = ""
          /\ DOMAIN result = RecordKeys
          /\ result.review_id = review.review_id
          /\ result.hotel_id = review.hotel_id
          /\ result.rating = review.rating
          /\ result.review_text = review.review_text
          /\ result.publish_decision \in {"REJECT", "PUBLISH"}
          /\ result.model_name = LLM_MODEL
          /\ result.prompt_version = PROMPT_VERSION

\* the number of steps a call at position p is from its return, at most
StepsLeft(p) ==
    CASE p = "llm" -> 3
      [] p = "pipeline" -> 2
      [] p = "except" -> 1
      [] OTHER -> 0

\* a step of a started call brings it nearer to its return
Advances ==
    pc \in {"llm", "pipeline", "except"} =>
        /\ pc' \in {"pipeline", "except", "return"}
        /\ StepsLeft(pc') < StepsLeft(pc)

\* C4: analyze_review never raises to its caller: whatever the extractor does (valid
\* response, no JSON, wrongly typed members such as a null topic_tags, call error,
\* timeout, no API key), no exception leaves the except clause, every step of a started
\* call brings it nearer to its return (so it terminates), and the record it returns is
\* complete and carries a publish decision.
C4_NeverRaises == [](NoRaiseAndComplete) /\ [][Advances]_vars

\* the extractor reported a null topic_tags and the call returned the fallback record
C4_Witness ==
    /\ Returned
    /\ path = "fallback"
    /\ topic_tags.ty = "none"
    /\ result.publish_decision \in {"REJECT", "PUBLISH"}

\* the exceptions of an unreachable extractor: no API key, network, authentication
Unreachable == {"ValueError", "APIConnectionError", "AuthenticationError"}

\* C5: when the extractor is unreachable (the call cannot be attempted for lack of an
\* API key, or raises a network or authentication error) the record comes from the
\* fallback path and its flags include "llm_analysis_failed".
C5_UnreachableFallsBack ==
    (Returned /\ llm_raised \in Unreachable) =>
        /\ path = "fallback"
        /\ SeqContains(result.flags.items, "llm_analysis_failed")

\* the seven boolean signals
BooleanSignals ==
    {"price_mentioned", "owner_name_mentioned", "phone_email_present", "abusive_language",
     "spam_or_links", "hate_sexual_violent", "too_short"}

\* the try body of _analyze_with_llm ended in a call error or a JSON parse error
CallOrParseError == llm_raised \in CallErrors \cup {"JSONDecodeError"}

\* C6: if the model call errors (network, auth, timeout) or its response is no JSON,
\* _analyze_with_llm returns the default signal set (seven booleans false, sentiment
\* SENTIMENT_NEUTRAL, summary "") with empty topic tags and flags, and the analysis
\* goes on and returns on the main path.
C6_LocalFailureDefaults ==
    CallOrParseError =>
        /\ pc \in {"pipeline", "return"}
        /\ exc = ""
        /\ SeqToSet(DictKeys(signals)) = BooleanSignals \cup {"summary", "sentiment"}
        /\ \A k \in BooleanSignals : DictGet(signals, k, None) = False
        /\ DictGet(signals, "sentiment", None) = "SENTIMENT_NEUTRAL"
        /\ DictGet(signals, "summary", None) = ""
        /\ topic_tags = JList(<<>>)
        /\ flags = JList(<<>>)
        /\ Returned => (path = "main" /\ result.flags = JList(<<>>))

\* a timed-out call or an unparsable response, and the record of the main path after it
C6_Witness ==
    /\ Returned
    /\ path = "main"
    /\ llm_raised \in {"APITimeoutError", "JSONDecodeError"}
    /\ DictGet(signals, "too_short", None) = False

\* C7: the pattern merge only adds: every boolean signal true before it is true after
\* it, and no signal is false after it unless it was false before it (an extractor's
\* too_short = true stays true for a text of MIN_WORDS words or more).
C7_MergeOnlyAdds ==
    Returned =>
        \A k \in BooleanSignals :
            /\ DictGet(Incoming, k, None) = True => Detected(k) = True
            /\ (DictHas(result.detected_signals, k) /\ Detected(k) = False)
                  => (DictHas(Incoming, k) /\ DictGet(Incoming, k, None) = False)
            /\ DictHas(Incoming, k) => DictHas(result.detected_signals, k)

\* the extractor reported too_short for a text of at least MIN_WORDS words
C7_Witness ==
    /\ Returned
    /\ path = "main"
    /\ DictGet(signals, "too_short", None) = True
    /\ WordCount(result.review_text) >= MIN_WORDS
    /\ Detected("too_short") = True

\* the candidate sentiment _determine_sentiment is called with on the main path
Candidate == DictGet(signals, "sentiment", None)

Recognized == {"SENTIMENT_POSITIVE", "SENTIMENT_NEUTRAL", "SENTIMENT_NEGATIVE"}

\* the candidate after rule 1: an unrecognized value counts as SENTIMENT_NEUTRAL
Coerced == IF Candidate \in Recognized THEN Candidate ELSE "SENTIMENT_NEUTRAL"

\* C8: for every candidate sentiment and every rating, _determine_sentiment returns
\* SENTIMENT_POSITIVE when rating >= 4 and the candidate is SENTIMENT_NEGATIVE,
\* SENTIMENT_NEGATIVE when rating <= 2 and the candidate is SENTIMENT_POSITIVE, and the
\* candidate (as coerced by rule 1) otherwise: a neutral candidate is never overridden
\* and a rating of 3 overrides nothing.
C8_RatingOverride ==
    (Returned /\ path = "main") =>
        /\ result.sentiment =
              CASE result.rating >= 4 /\ Coerced = "SENTIMENT_NEGATIVE" -> "SENTIMENT_POSITIVE"
                [] result.rating <= 2 /\ Coerced = "SENTIMENT_POSITIVE" -> "SENTIMENT_NEGATIVE"
                [] OTHER -> Coerced
        /\ Coerced = "SENTIMENT_NEUTRAL" => result.sentiment = "SENTIMENT_NEUTRAL"
        /\ result.rating = 3 => result.sentiment = Coerced

\* a negative candidate at rating 4 came back positive
C8_Witness ==
    /\ Returned
    /\ path = "main"
    /\ Candidate = "SENTIMENT_NEGATIVE"
    /\ result.rating = 4
    /\ result.sentiment = "SENTIMENT_POSITIVE"

\* C9: the sentiment of every returned record is one of the three sentiment values,
\* whatever the extractor reported as sentiment (unrecognized, null, missing) and for
\* every rating, also outside 1..5; an unrecognized candidate becomes SENTIMENT_NEUTRAL
\* before the rating rules, so its record is neutral at every rating.
C9_SentimentClosed ==
    Returned =>
        /\ result.sentiment \in Recognized
        /\ (path = "main" /\ Candidate \notin Recognized)
              => result.sentiment = "SENTIMENT_NEUTRAL"

\* an unrecognized candidate at a rating outside 1..5
C9_Witness ==
    /\ Returned
    /\ path = "main"
    /\ Candidate = "HAPPY"
    /\ result.rating \notin 1..5
    /\ result.sentiment = "SENTIMENT_NEUTRAL"

\* C10: the tags of every returned record hold no tag twice, and the first tag is the
\* sentiment tag, equal to the record's sentiment, also when the extractor reports a
\* topic tag twice or a sentiment tag among the topic tags.
C10_TagsDistinctSentimentFirst ==
    Returned =>
        /\ Len(result.tags) >= 1
        /\ result.tags[1] = result.sentiment
        /\ result.tags[1] \in Recognized
        /\ \A i, j \in 1..Len(result.tags) : i # j => result.tags[i] # result.tags[j]

\* the extractor reported the same topic tag twice and the record holds it once
C10_Witness ==
    /\ Returned
    /\ path = "main"
    /\ topic_tags = JList(<<"WIFI", "WIFI">>)
    /\ result.tags = <<result.sentiment, "WIFI">>

\* the special tags with their signals, in the order of the tag synthesizer
SpecialTable == <<
    <<"price_mentioned", "PRICE_MENTIONED">>,
    <<"owner_name_mentioned", "OWNER_MENTIONED">>,
    <<"phone_email_present", "CONTACT_INFO_MENTIONED">>,
    <<"abusive_language", "ABUSIVE_CONTENT">>,
    <<"spam_or_links", "SPAM_SUSPECT">> >>

TopicSet ==
    {"CLEANLINESS", "ROOM_QUALITY", "BATHROOM", "FOOD_BREAKFAST", "RESTAURANT_FOOD",
     "SERVICE_STAFF", "CHECKIN_CHECKOUT", "LOCATION", "AMENITIES", "WIFI", "NOISE",
     "PARKING", "SAFETY_SECURITY", "MAINTENANCE"}

IsTopic(t) == t \in TopicSet

IsTrueSpecial(row) == Truthy(Detected(row[1]))

SecondOf(rows, k) == rows[k][2]

\* sentiment tag, allow-listed topic tags as reported, special tags of the true signals
TagsBeforeDedup ==
    LET special == SelectSeq(SpecialTable, IsTrueSpecial)
    IN  <<result.sentiment>> \o SelectSeq(topic_tags.items, IsTopic)
            \o [k \in 1..Len(special) |-> SecondOf(special, k)]

\* the positions of TagsBeforeDedup that hold the first occurrence of their tag
FirstOccurrences ==
    {k \in 1..Len(TagsBeforeDedup) : \A j \in 1..(k - 1) : TagsBeforeDedup[j] # TagsBeforeDedup[k]}

\* C11: the tags of a main-path record are the sentiment tag, then the extractor's
\* allow-listed topic tags in the order reported, then the special tags of the true
\* signals in the order PRICE_MENTIONED, OWNER_MENTIONED, CONTACT_INFO_MENTIONED,
\* ABUSIVE_CONTENT, SPAM_SUSPECT, with only the first occurrence of each tag kept.
C11_TagOrder ==
    (Returned /\ path = "main") =>
        /\ topic_tags.ty = "list"
        /\ Len(result.tags) = Cardinality(FirstOccurrences)
        /\ \A k \in FirstOccurrences :
              result.tags[Cardinality({j \in FirstOccurrences : j <= k})] = TagsBeforeDedup[k]

\* topic tags reported against the order of the allow-list, followed by several specials
C11_Witness ==
    /\ Returned
    /\ path = "main"
    /\ topic_tags = JList(<<"WIFI", "CLEANLINESS">>)
    /\ SubSeq(result.tags, 2, 3) = <<"WIFI", "CLEANLINESS">>
    /\ Len(result.tags) >= 5
    /\ result.tags[4] = "PRICE_MENTIONED"

SpecialSet ==
    {"PRICE_MENTIONED", "OWNER_MENTIONED", "CONTACT_INFO_MENTIONED", "ABUSIVE_CONTENT",
     "SPAM_SUSPECT"}

\* the extractor reported a list of topic tags with a tag outside the allow-list
ReportedOutsider ==
    /\ topic_tags.ty = "list"
    /\ \E k \in 1..Len(topic_tags.items) : topic_tags.items[k] \notin TopicSet

\* C12: the tag vocabulary is closed: every tag of a returned record is one of the 3
\* sentiment tags, the 14 topic tags or the 5 special tags; a reported topic tag outside
\* the allow-list is dropped from the tags and raises nothing (the record still comes
\* from the main path).
C12_TagVocabularyClosed ==
    /\ Cardinality(Recognized) = 3 /\ Cardinality(TopicSet) = 14 /\ Cardinality(SpecialSet) = 5
    /\ Returned =>
          /\ \A k \in 1..Len(result.tags) :
                result.tags[k] \in Recognized \cup TopicSet \cup SpecialSet
          /\ ReportedOutsider =>
                /\ path = "main"
                /\ \A k \in 2..Len(result.tags) :
                      result.tags[k] \in TopicSet =>
                          \E j \in 1..Len(topic_tags.items) : topic_tags.items[j] = result.tags[k]

\* the extractor reported an unknown tag next to an allow-listed one
C12_Witness ==
    /\ Returned
    /\ topic_tags = JList(<<"BOGUS", "WIFI">>)
    /\ result.tags = <<result.sentiment, "WIFI">>

\* the returned signal set with too_short set to v
WithTooShort(v) == DictSet(result.detected_signals, "too_short", v)

\* too_short is the only boolean signal that is true in the returned record
OnlyTooShort == \A k \in BooleanSignals : Truthy(Detected(k)) <=> (k = "too_short")

\* C13: too_short contributes no rejection reason: on every returned signal set the rule
\* engine gives the record's decision and reasons whether too_short is set to true or
\* to false, and a set whose only true signal is too_short gives PUBLISH with no reason.
C13_TooShortNeverRejects ==
    Returned =>
        /\ _apply_publishing_rules(WithTooShort(True))
              = <<result.publish_decision, result.rejection_reasons>>
        /\ _apply_publishing_rules(WithTooShort(False))
              = <<result.publish_decision, result.rejection_reasons>>
        /\ OnlyTooShort => (result.publish_decision = "PUBLISH" /\ result.rejection_reasons = <<>>)

\* a short review without any other signal was published
C13_Witness ==
    /\ Returned
    /\ OnlyTooShort
    /\ result.publish_decision = "PUBLISH"
    /\ WordCount(result.review_text) < MIN_WORDS

\* the closed key set of a signal set
SignalKeys == BooleanSignals \cup {"summary", "sentiment"}

\* C14: detected_signals of every returned record holds exactly the closed key set (the
\* seven boolean signals, sentiment and summary): no key outside it that the extractor
\* added, and every key the extractor omitted, with its default.
C14_ClosedKeySet ==
    Returned => SeqToSet(DictKeys(result.detected_signals)) = SignalKeys

\* the texts with a substring of 10 consecutive digits
TenDigitTexts ==
    {t \in Texts : \E i \in 1..(Len(t) - 9) : \A k \in i..(i + 9) : CharAt(t, k) \in DigitChars}

\* C15: for every text with a substring of 10 consecutive digits, phone_email_present is
\* true in the returned signal set whatever the extractor reported, also when the digits
\* belong to a longer run of digits or touch a letter.
C15_TenDigitsFlagged ==
    (Returned /\ result.review_text \in TenDigitTexts) =>
        Detected("phone_email_present") = True

\* the three price phrases, in lower case
PricePhrases == {"₹5000", "rs. 5000", "paid 5000"}

\* the texts that contain one of the price phrases in some letter case
PriceTexts == {t \in Texts : \E ph \in PricePhrases : StrContains(StrLower(t), ph)}

\* C16: for every text that contains "₹5000", "Rs. 5000" or "paid 5000" anywhere, in any
\* letter case, price_mentioned is true in the returned signal set whatever the extractor
\* reported, on the main path and on the fallback path.
C16_PricePhrasesFlagged ==
    (Returned /\ result.review_text \in PriceTexts) => Detected("price_mentioned") = True

\* the extractor reported price_mentioned false for a text with "RS. 5000" in capitals
C16_Witness ==
    /\ Returned
    /\ path = "main"
    /\ StrContains(result.review_text, "RS. 5000")
    /\ DictGet(signals, "price_mentioned", None) = False
    /\ Detected("price_mentioned") = True

\* the steps after _analyze_with_llm, the fallback analyzer among them, send no request
NoLaterRequest == pc \in {"pipeline", "except"} => requests' = requests

Holders == {t \in Threads : got[t] # None}

\* C18: under every interleaving of concurrent _get_client calls, the shared client is
\* constructed at most once and every caller receives that one instance.
C18_InitializedOnce ==
    /\ made <= 1
    /\ \A t, u \in Holders : got[t] = got[u]

\* C19: the record a call of analyze_review returns is the one its review and the
\* extractor's response to that review determine, whatever was analyzed before on any
\* thread and whatever is being analyzed on the other thread; the default signal set handed
\* out after a failure does not show what an earlier analysis wrote into its own copy.
C19_RequestScoped ==
    \A t \in Threads :
        tpc[t] = "return" => frame[t].result = AloneResults[frame[t].review, frame[t].response]

\* T2 got the default signal set after T1 had written a price hit into its own copy, and
\* T2's record shows no price
C19_Witness ==
    /\ tpc["T2"] = "return"
    /\ frame["T2"].own
    /\ frame["T2"].review.review_text = "Nice stay"
    /\ DictGet(handed_out["T1"], "price_mentioned", False) = True
    /\ DictGet(frame["T2"].result.detected_signals, "price_mentioned", False) = False
    /\ frame["T2"].result.publish_decision = "PUBLISH"

\* the positions of the batch whose iteration has ended without an error
Kept == {k \in 1..idx : k \notin failed}

\* analyze_review has been called for every position up to idx, in order, and
\* analyzed_reviews holds the reviews of the positions that did not fail, in order
LoopSoFar ==
    /\ called = [k \in 1..idx |-> k]
    /\ Len(analyzed_reviews) = Cardinality(Kept)
    /\ \A k \in Kept :
           analyzed_reviews[Cardinality({j \in Kept : j <= k})].review_id
               = reviews_to_analyze[k].review_id

\* an iteration, failed or not, leads to the next review or to the end of the loop
NextReview == bpc = "loop" => (bpc' \in {"loop", "export"} /\ idx' = idx + 1)

\* C20: in bulk analysis a failure while analyzing or persisting one review does not abort
\* the batch: every later review of the input is still analyzed, the loop reaches the end
\* of the input, and the failing reviews are the only ones missing from the results.
C20_BatchSurvives ==
    /\ [](bpc \in {"loop", "export"} => LoopSoFar)
    /\ [](bpc = "export" => idx = Len(reviews_to_analyze))
    /\ [][NextReview]_vars

\* the insert of the first of three reviews failed; the two later ones are in the results
C20_Witness ==
    /\ bpc = "export"
    /\ Len(reviews_to_analyze) = 3
    /\ failed = {1}
    /\ called = <<1, 2, 3>>
    /\ Len(analyzed_reviews) = 2

\* the entries of the returned record's flags (none if flags is not a list)
FlagItems == IF result.flags.ty = "list" THEN SeqToSet(result.flags.items) ELSE {}

\* C21: for a review of fewer than 15 words with no other signal, the too_short the
\* pattern matcher detected shows in the record's flags, and the decision stays PUBLISH.
C21_TooShortFlagged ==
    (Returned /\ WordCount(result.review_text) < MIN_WORDS /\ OnlyTooShort) =>
        /\ "too_short" \in FlagItems
        /\ result.publish_decision = "PUBLISH"

\* the signals a pattern can raise
PatternKeys == BooleanSignals \ {"hate_sexual_violent"}

\* C22: a record of the fallback path has sentiment SENTIMENT_NEUTRAL whatever the rating,
\* flags exactly ["llm_analysis_failed"], the default signal set with exactly the pattern
\* hits raised to true (hate_sexual_violent false), and the decision and reasons the rule
\* engine gives on those signals.
C22_FallbackRecord ==
    (Returned /\ path = "fallback") =>
        /\ result.sentiment = "SENTIMENT_NEUTRAL"
        /\ result.flags = JList(<<"llm_analysis_failed">>)
        /\ DictKeys(result.detected_signals) = DictKeys(_get_default_signals)
        /\ \A k \in PatternKeys :
               DictGet(result.detected_signals, k, None)
                   = IF RegexHits[result.review_text][k] THEN True ELSE False
        /\ DictGet(result.detected_signals, "hate_sexual_violent", None) = False
        /\ DictGet(result.detected_signals, "sentiment", None) = "SENTIMENT_NEUTRAL"
        /\ DictGet(result.detected_signals, "summary", None) = ""
        /\ <<result.publish_decision, result.rejection_reasons>>
               = _apply_publishing_rules(result.detected_signals)

\* a five-star review that names a price went through the fallback path
C22_Witness ==
    /\ Returned
    /\ path = "fallback"
    /\ result.rating = 5
    /\ RegexHits[result.review_text].price_mentioned
    /\ result.sentiment = "SENTIMENT_NEUTRAL"
    /\ result.publish_decision = "REJECT"

\* C23: the pattern matcher raises too_short exactly at the boundary: a text of 14 or
\* fewer whitespace-separated words, the empty text included, gets too_short = true, and
\* a text of 15 or more words keeps the value the incoming signal set had, or its absence.
C23_TooShortBoundary ==
    Returned =>
        /\ WordCount(result.review_text) <= 14 => Detected("too_short") = True
        /\ WordCount(result.review_text) >= 15 =>
               DictGet(result.detected_signals, "too_short", Absent)
                   = DictGet(Incoming, "too_short", Absent)

\* a text of exactly 14 words for which the extractor reported too_short false
C23_Witness ==
    /\ Returned
    /\ path = "main"
    /\ WordCount(result.review_text) = 14
    /\ DictGet(signals, "too_short", None) = False
    /\ Detected("too_short") = True

\* the two owner phrases as stated: a role word, an optional "is" and a name word; or
\* spoke, talked or met, the word "with" and a name word
OwnerPhrasesStated == <<
    Cat(<<Alt(<<Lit("owner"), Lit("manager"), Lit("proprietor"), Lit("boss")>>),
          Plus(ReSpace), Opt(Cat(<<Lit("is"), Plus(ReSpace)>>)), Plus(ReWord)>>),
    Cat(<<Alt(<<Lit("spoke"), Lit("talked"), Lit("met")>>),
          Plus(ReSpace), Lit("with"), Plus(ReSpace), Plus(ReWord)>>) >>

\* the texts that hold one of the stated owner phrases
OwnerTexts == {t \in Texts : AnyMatch(OwnerPhrasesStated, StrLower(t), TRUE)}

\* C24: starting from owner_name_mentioned not true, the pattern matcher sets it to true
\* exactly when the text holds one of the stated owner phrases; spoke, talked or met
\* without "with" does not set it.
C24_OwnerPhrases ==
    (Returned /\ DictGet(Incoming, "owner_name_mentioned", False) # True) =>
        (Detected("owner_name_mentioned") = True <=> result.review_text \in OwnerTexts)

\* the valid JSON response bodies of the model
Bodies == {DumpOf[a] : a \in Documents}

\* what _analyze_with_llm handed back for the response with the message content c
Handed(c) ==
    LET r == LLMOutcome([status |-> "ok", content |-> c])
    IN  <<r.signals, r.topic_tags, r.flags>>

\* C25: code fence stripping is transparent: when the response is a valid JSON body
\* between json code fences, _analyze_with_llm hands back the signals, topic tags and
\* flags it hands back for the bare body.
C25_FencesTransparent ==
    \A t \in Threads : \A b \in Bodies :
        (tpc[t] = "pipeline" /\ frame[t].response = [status |-> "ok", content |-> Fenced(b)])
            => <<frame[t].signals, frame[t].topic_tags, frame[t].flags>> = Handed(b)

\* C26: when the extraction failed and the default signal set was substituted, the
\* summary of a record of the main path is generated from the review text: the text
\* itself up to 150 characters, else its first 150 characters followed by "...".
C26_AutoSummary ==
    (Returned /\ path = "main" /\ llm_raised # "")
        => result.summary = _auto_summarize(result.review_text)

\* the members of the signal set that the pattern matcher does not detect
UndetectedKeys == {"sentiment", "summary", "hate_sexual_violent"}

HateReason == "Contains hate speech, sexual, or violent content"

\* C27: the pattern matcher changes only the six boolean signals it detects: sentiment,
\* summary and hate_sexual_violent are after _enhance_signals_with_regex what they were
\* before it, so the hate, sexual or violent content reason is in a record only if the
\* extractor reported the signal.
C27_MatcherFrame ==
    Returned =>
        /\ \A k \in UndetectedKeys :
               DictGet(result.detected_signals, k, Absent) = DictGet(Incoming, k, Absent)
        /\ SeqContains(result.rejection_reasons, HateReason)
               => (path = "main" /\ Truthy(DictGet(signals, "hate_sexual_violent", False)))

\* the matcher found profanity and a price in a text for which the extractor reported
\* hate_sexual_violent to be false
C27_Witness ==
    /\ Returned
    /\ path = "main"
    /\ RegexHits[result.review_text].abusive_language
    /\ RegexHits[result.review_text].price_mentioned
    /\ DictGet(signals, "hate_sexual_violent", Absent) = False
    /\ Detected("abusive_language") = True
    /\ Detected("hate_sexual_violent") = False
    /\ ~SeqContains(result.rejection_reasons, HateReason)

\* C28: a record of the fallback path has tags equal to exactly [SENTIMENT_NEUTRAL],
\* whatever the pattern matcher raised; in every returned record a special tag in tags
\* implies that its signal is true and that the decision is REJECT.
C28_FallbackTags ==
    Returned =>
        /\ path = "fallback" => result.tags = <<"SENTIMENT_NEUTRAL">>
        /\ \A i \in 1..Len(special_tag_map) :
               SeqContains(result.tags, special_tag_map[i][2])
                   => /\ Truthy(Detected(special_tag_map[i][1]))
                      /\ result.publish_decision = "REJECT"

\* the converse fails: a record of the fallback path whose price signal is true and
\* whose decision is REJECT, without the special tag
C28_Witness ==
    /\ Returned
    /\ path = "fallback"
    /\ Detected("price_mentioned") = True
    /\ Detected("abusive_language") = True
    /\ result.publish_decision = "REJECT"
    /\ result.tags = <<"SENTIMENT_NEUTRAL">>

\* the values of a signal for which Python's bool() is false, an absent key included
FalseValues == {False, None, Zero, "", Absent}

\* the pattern matcher sets the signal key for the text of the record
MatcherSets(key) ==
    /\ key # "hate_sexual_violent"
    /\ RegexHits[result.review_text][key]

\* C29: the rule engine and the tag synthesizer test signal values by truthiness: for
\* every value the extractor returned for a signal the matcher did not set (true, false,
\* a string, a number, null, key absent), the reason and the special tag of that signal
\* are in the record exactly when the value is truthy.
C29_Truthiness ==
    (Returned /\ path = "main") =>
        /\ \A i \in 1..Len(ReasonTable) :
               ~MatcherSets(ReasonTable[i][1]) =>
                   (SeqContains(result.rejection_reasons, ReasonTable[i][2])
                       <=> DictGet(signals, ReasonTable[i][1], Absent) \notin FalseValues)
        /\ \A i \in 1..Len(special_tag_map) :
               ~MatcherSets(special_tag_map[i][1]) =>
                   (SeqContains(result.tags, special_tag_map[i][2])
                       <=> DictGet(signals, special_tag_map[i][1], Absent) \notin FalseValues)

\* the extractor reported the string "false" for price_mentioned, the text names no
\* price, and the record is rejected for a price and tagged PRICE_MENTIONED
C29_Witness ==
    /\ Returned
    /\ path = "main"
    /\ DictGet(signals, "price_mentioned", Absent) = "false"
    /\ ~RegexHits[result.review_text].price_mentioned
    /\ result.publish_decision = "REJECT"
    /\ result.rejection_reasons = <<ReasonTable[1][2]>>
    /\ SeqContains(result.tags, "PRICE_MENTIONED")

\* the positions of the batch whose analysis and enriched-record insert both succeeded
Succeeded == (1..Len(reviews_to_analyze)) \ failed

\* the review ids of the analyses the run kept
KeptIds == {analyzed_reviews[k].review_id : k \in 1..Len(analyzed_reviews)}

\* C30: after a bulk run that reaches its end the counters agree: published_count +
\* rejected_count = total_reviews = db_rows_inserted = the number of reviews whose
\* analysis and insert both succeeded, each of them stored once in reviews_enriched; a
\* review whose insert failed is counted in none of them.
C30_CountersConsistent ==
    bpc = "returned" =>
        /\ output.published_count + output.rejected_count = output.total_reviews
        /\ output.total_reviews = output.db_rows_inserted
        /\ output.db_rows_inserted = Cardinality(Succeeded)
        /\ output.db_rows_inserted = Cardinality(KeptIds)
        /\ KeptIds \subseteq enriched_collection
        /\ output.published_count
               = Cardinality({k \in 1..Len(analyzed_reviews) :
                                 analyzed_reviews[k].publish_decision = "PUBLISH"})

\* a run of three reviews that published one, rejected one and lost one to a failed
\* insert
C30_Witness ==
    /\ bpc = "returned"
    /\ Len(reviews_to_analyze) = 3
    /\ Cardinality(failed) = 1
    /\ output.published_count = 1
    /\ output.rejected_count = 1
    /\ output.total_reviews = 2
    /\ output.db_rows_inserted = 2

=============================================================================
